---- MODULE Spec2Model ----
(***************************************************************************)
(* Model of btk's encrypted journal replication: the Mutation envelope     *)
(* (network_common), the two relay implementations (btk_server's BTKServer *)
(* and btk_worker's StorageCoordinator) and the client synchronization     *)
(* tick (btk_client's RemoteCloud::tick).                                  *)
(*                                                                         *)
(* Byte strings are modelled symbolically.  Keys and hashes are integers   *)
(* produced by injective operators (a collision-free BLAKE3, a             *)
(* deterministic ML-DSA key generation); a ciphertext is a record naming   *)
(* the key stream it was produced with; a signature is a record naming the *)
(* signer and the signed bytes.                                            *)
(***************************************************************************)
EXTENDS Integers, Sequences, FiniteSets, TLC

\* ------------------------------------------------------------------ bounds
\* Longest local journal a device builds (and highest index + 1 ever posted).
MaxLen == 2
\* Disturbances per behaviour: injected failures (transport errors, unexpected
\* statuses, lost responses), process restarts and switches of the
\* synchronization setting.
MaxFaults == 2
\* Mutations built per behaviour of the crypto calls.
MaxMade == 2

\* --------------------------------------------------------- program constants
OK == 200
NO_CONTENT == 204
BAD_REQUEST == 400
UNAUTHORIZED == 401
NOT_FOUND == 404
GONE == 410
FAILED_DEPENDENCY == 424
INTERNAL_SERVER_ERROR == 500

\* reqwest's StatusCode::is_success
IsSuccess(status) == status >= 200 /\ status <= 299

\* ------------------------------------------------------------ the universe
\* 32-byte cloud secrets.
Secrets == {1, 2}
\* The secret shared by the modelled devices.
DeviceSecret == 1
\* Values rand::random() may give a salt.
Salts == {1, 2}
Devices == {"A", "B"}
\* Option::None for byte-valued options.
None == 0
\* Option::None for the u64 / u32 valued options.
NoIndex == -1

\* ------------------------------------------------------------ crypto envelope
\* MlDsa87::key_gen_internal(k).verifying_key().encode(): deterministic and
\* injective in the secret.
VerifyingKey(k) == 10 + k

\* Byte strings that are offered as public keys.
PublicKeys == {VerifyingKey(k) : k \in Secrets}

\* blake3::hash of an encoded public key (collision free).
Blake3Key(pk) == 100 + pk

\* Cloud::id_from_key
IdFromKey(k) == Blake3Key(VerifyingKey(k))

CloudIds == {IdFromKey(k) : k \in Secrets}

\* blake3::hash(Bytes::encode(&(private_key, index, salt))): the per-mutation key.
MutationKey_NoSalt(k, index, salt) == <<k, index, None>>

MutationKey(k, index, salt) == <<k, index, salt>>

\* ChaCha20 with the all-zero nonce: XOR with the key stream of `key`.  A
\* ciphertext names the key stream it carries; `noise` counts bits flipped
\* after encryption (0 = none).
ApplyKeystream(key, plain) == [key |-> key, plain |-> plain, noise |-> 0]

\* What flipped ciphertext bits do to the plaintext of a stream cipher: the
\* same bits are flipped in the serialized transaction (here: in its
\* operations), which still parses.
Garbled(tx) == [tx EXCEPT !.operations = @ + 100]

\* The second application of a key stream followed by Bytes::parse: the same
\* key stream cancels the first application, leaving the plaintext with the
\* flipped bits; another key stream leaves bytes that do not parse.
RemoveKeystream(key, data) ==
    IF data.key # key THEN [ok |-> FALSE, tx |-> data.plain]
    ELSE IF data.noise = 0 THEN [ok |-> TRUE, tx |-> data.plain]
    ELSE [ok |-> TRUE, tx |-> Garbled(data.plain)]

\* signer.sign(&tx_bytes)
Sign(k, data) == [signer |-> k, data |-> data]

\* vk.verify(data, &sig)
SignatureValid_KeyOnly(pk, data, sig) == VerifyingKey(sig.signer) = pk

SignatureValid(pk, data, sig) == VerifyingKey(sig.signer) = pk /\ sig.data = data

\* Mutation::verify
MutationVerify_TrustEmbedded(m, public_key) ==
    LET vk == IF m.public_key # None THEN m.public_key ELSE public_key
    IN  Blake3Key(vk) = m.public_key_hash /\ SignatureValid(vk, m.data, m.signature)

MutationVerify(m, public_key) ==
    /\ Blake3Key(public_key) = m.public_key_hash
    /\ (m.public_key # None => m.public_key = public_key)
    /\ SignatureValid(public_key, m.data, m.signature)

\* ------------------------------------------------------------ journal (anondb)
\* JournalTransaction { index, operations, last_tx_hash }; genesis chains from
\* the zero hash.
ZeroHash == <<>>

\* The transaction hash, a collision-free function of (index, operations,
\* last_tx_hash).
TxHash(tx) == <<tx.index, tx.operations>> \o tx.last_tx_hash

TailHash(journal) ==
    IF Len(journal) = 0 THEN ZeroHash ELSE TxHash(journal[Len(journal)])

\* The transaction a local commit of `operations` appends.
CommitTx(journal, operations) ==
    [index |-> Len(journal), operations |-> operations, last_tx_hash |-> TailHash(journal)]

\* Journal::append_tx accepts a pre-built transaction only at the next index
\* and only when it chains from the local tail.
AppendTxAccepts_Unchecked(journal, tx) == TRUE

AppendTxAccepts(journal, tx) ==
    /\ tx.index = Len(journal)
    /\ tx.last_tx_hash = TailHash(journal)

\* Journal::journal_tx_by_index (indices start at 0)
JournalTxByIndex(journal, i) == journal[i + 1]

\* ------------------------------------------------------------ Cloud
\* encrypt_tx's key: derived from the secret, the transaction's index and the
\* salt.
EncryptionKey(k, tx, salt) == MutationKey(k, tx.index, salt)

\* The mutation encrypt_tx builds once the salt is drawn: the index is the
\* transaction's, the signature covers the ciphertext, the public key goes
\* with index 0 only.
EncryptTx(k, tx, salt) ==
    LET data == ApplyKeystream(EncryptionKey(k, tx, salt), tx)
    IN  [index |-> tx.index,
         data |-> data,
         signature |-> Sign(k, data),
         public_key_hash |-> IdFromKey(k),
         public_key |-> IF tx.index = 0 THEN VerifyingKey(k) ELSE None,
         salt |-> salt,
         mutation_key |-> None]

\* decrypt_tx's key: derived from the secret and the mutation's index and salt.
DecryptionKey_NoSalt(k, m) == MutationKey(k, m.index, None)

DecryptionKey(k, m) == MutationKey(k, m.index, m.salt)

\* Cloud::decrypt_tx: [ok, tx, index].  It fails on a foreign cloud id, on a
\* failed verification and on bytes that do not parse; `index` is the
\* mutation's index, which RemoteCloud::tick reads next to the transaction.
DecryptTx(k, m) ==
    LET opened == RemoveKeystream(DecryptionKey(k, m), m.data)
    IN  IF m.public_key_hash # IdFromKey(k) THEN [ok |-> FALSE, tx |-> m.data.plain, index |-> m.index]
        ELSE IF ~MutationVerify(m, VerifyingKey(k)) THEN [ok |-> FALSE, tx |-> m.data.plain, index |-> m.index]
        ELSE IF ~opened.ok THEN [ok |-> FALSE, tx |-> m.data.plain, index |-> m.index]
        ELSE [ok |-> TRUE, tx |-> opened.tx, index |-> m.index]

\* ------------------------------------------------------------ state
VARIABLES
    relayKind,            \* which relay implementation serves: "server" | "worker"
    table,                \* per cloud id: stored mutations by index
    known_public_keys,    \* per cloud id: the public key stored with mutation 0
    bucket_count,         \* worker: the "cloud-<id>-count" object, per cloud id
    mutation_count_lock,  \* worker: per durable object, its cached mutation count
    last,                 \* the last HTTP exchange the relay served
    journal,              \* per device: the cloud's local journal
    sync_state,           \* per device: CloudSyncState in memory
    sync_db,              \* per device: CloudSyncState as persisted
    initial_sync_complete,\* per device
    inbox,                \* per device: a non-Pong notification is pending
    tick,                 \* per device: position and locals of the running tick
    status,               \* per device: the last sync status reported
    faults,               \* disturbances so far
    made,                 \* mutations built so far: who built which, from what
    probe,                \* the last Mutation::verify / decrypt_tx call and its result
    connection,           \* per device: the notification WebSocket (connection_maybe)
    resumed,              \* per device: enabled again, and no tick left its push loop since
    known_keys,           \* AppState: the secrets in the known-keys table
    clouds,               \* AppState: the key set of the clouds map
    remote_clouds,        \* AppState: the key set of the remote_clouds map
    active_cloud_id,      \* AppState: the active cloud id
    ticker,               \* AppState: the background task spawned by init
    ticking,              \* per cloud id: tick invocations in progress
    called,               \* the last registry call and its result
    fork                  \* the last duplicate_at call and its result

relayVars == <<relayKind, table, known_public_keys, bucket_count, mutation_count_lock>>
clientVars == <<journal, sync_state, sync_db, initial_sync_complete, inbox, tick, status,
                connection, resumed>>
cryptoVars == <<made, probe>>
appVars == <<known_keys, clouds, remote_clouds, active_cloud_id, ticker, ticking, called, fork>>
vars == <<relayKind, table, known_public_keys, bucket_count, mutation_count_lock, last,
          journal, sync_state, sync_db, initial_sync_complete, inbox, tick, status, faults,
          made, probe, connection, resumed, known_keys, clouds, remote_clouds, active_cloud_id,
          ticker, ticking, called, fork>>

\* ------------------------------------------------------------ relay
EmptyTable == [i \in {} |-> None]

\* Journal table insert / R2 bucket put at key `index`.
TableInsert(t, index, m) ==
    [i \in (DOMAIN t) \cup {index} |-> IF i = index THEN m ELSE t[i]]

\* BTKServer: table.len() / db.count(table)
ServerCount(c) == Cardinality(DOMAIN table[c])

\* StorageCoordinator::load_mutation_count
LoadMutationCount(c) == bucket_count[c]

\* StorageCoordinator::mutation_count as served by durable object `o`: the
\* cached count when there is one, whatever cloud id is asked for.
WorkerMutationCount(o, c) ==
    IF mutation_count_lock[o] # NoIndex THEN mutation_count_lock[o] ELSE LoadMutationCount(c)

\* The cache after StorageCoordinator::mutation_count ran in durable object `o`.
CacheAfterRead_CountsRequest(o, c) ==
    [mutation_count_lock EXCEPT ![o] = WorkerMutationCount(o, c) + 1]

CacheAfterRead(o, c) ==
    [mutation_count_lock EXCEPT ![o] = WorkerMutationCount(o, c)]

\* Both relays: mutation.public_key, else the key stored for the hash.
ResolvePublicKey_FromSignature(m) ==
    IF m.public_key # None THEN m.public_key ELSE VerifyingKey(m.signature.signer)

ResolvePublicKey(m) ==
    IF m.public_key # None THEN m.public_key ELSE known_public_keys[m.public_key_hash]

\* The index a POST must carry, given the number of stored mutations.
IndexAccepted_Overwrite(index, count) == index <= count

IndexAccepted(index, count) == index = count

\* BTKServer::handle_req, POST /mutate: the status answered.
ServerPostStatus(m) ==
    IF ResolvePublicKey(m) = None THEN BAD_REQUEST
    ELSE IF ~MutationVerify(m, ResolvePublicKey(m)) THEN UNAUTHORIZED
    ELSE IF ~IndexAccepted(m.index, ServerCount(m.public_key_hash)) THEN GONE
    ELSE NO_CONTENT

\* StorageCoordinator::fetch, POST /mutate: the status answered.
WorkerPostStatus(m) ==
    IF ResolvePublicKey(m) = None THEN BAD_REQUEST
    ELSE IF ~MutationVerify(m, ResolvePublicKey(m)) THEN UNAUTHORIZED
    ELSE IF ~IndexAccepted(m.index, LoadMutationCount(m.public_key_hash)) THEN BAD_REQUEST
    ELSE NO_CONTENT

PostStatus(m) == IF relayKind = "server" THEN ServerPostStatus(m) ELSE WorkerPostStatus(m)

\* Both relays store the resolved public key with the mutation they accept
\* at index 0: `if mutation.index == 0`.
StoresKey_Never(index) == FALSE

StoresKey(index) == index = 0

\* POST /mutate?cloud_id=q with body m: the relay's state change.  The server
\* ignores the query; the worker routes the request to durable object q.
PostMutate(q, m) ==
    LET c == m.public_key_hash
    IN  IF PostStatus(m) # NO_CONTENT
        THEN UNCHANGED relayVars
        ELSE /\ table' = [table EXCEPT ![c] = TableInsert(@, m.index, m)]
             /\ known_public_keys' =
                    IF StoresKey(m.index)
                    THEN [known_public_keys EXCEPT ![c] = ResolvePublicKey(m)]
                    ELSE known_public_keys
             /\ bucket_count' =
                    IF relayKind = "worker"
                    THEN [bucket_count EXCEPT ![c] = m.index + 1]
                    ELSE bucket_count
             /\ mutation_count_lock' =
                    IF relayKind = "worker"
                    THEN [mutation_count_lock EXCEPT ![q] = m.index + 1]
                    ELSE mutation_count_lock
             /\ UNCHANGED relayKind

\* GET /state?cloud_id=q: the count answered.
StateAnswer(q) == IF relayKind = "server" THEN ServerCount(q) ELSE WorkerMutationCount(q, q)

\* GET /mutation?cloud_id=q&index=i: the status answered.
ServerGetStatus(q, i) == IF i \in DOMAIN table[q] THEN OK ELSE NOT_FOUND

WorkerGetStatus_AlwaysMissing(q, i) == FAILED_DEPENDENCY

WorkerGetStatus(q, i) ==
    IF i >= WorkerMutationCount(q, q) THEN FAILED_DEPENDENCY
    ELSE IF i \in DOMAIN table[q] THEN OK
    ELSE INTERNAL_SERVER_ERROR

GetStatus(q, i) == IF relayKind = "server" THEN ServerGetStatus(q, i) ELSE WorkerGetStatus(q, i)

\* The relay's state change on either GET: the worker caches the count it
\* loaded.
RelayRead(q) ==
    /\ mutation_count_lock' =
           IF relayKind = "worker" THEN CacheAfterRead(q, q) ELSE mutation_count_lock
    /\ UNCHANGED <<relayKind, table, known_public_keys, bucket_count>>

NoExchange == [op |-> "none", cloud |-> None, index |-> NoIndex, salt |-> None,
               status |-> None, count |-> NoIndex]

\* ------------------------------------------------------------ client
\* The cloud every modelled device replicates.
DeviceCloud == IdFromKey(DeviceSecret)

\* The salts rand::random() gives device d.  Two devices never draw the same
\* 32 bytes; one value per device keeps the relay's content small, and no
\* client step reads a salt except through decrypt_tx.
DeviceSalts(d) == IF d = "A" THEN {1} ELSE {2}

\* What device d commits locally.
Payload(d) == IF d = "A" THEN 1 ELSE 2

\* A tick that is not running.  `result` tells how the last tick of this
\* process ended ("none": no tick has ended since the process started); a
\* running tick leaves it alone.
Idle(result) ==
    [pc |-> "idle", i |-> 0, journal_len |-> 0, remote_index |-> 0,
     current_index |-> 0, broke |-> FALSE, result |-> result]

\* A message on sync_status_tx: its kind, and the index it names where a
\* property reads it.
Status(kind, index) == [kind |-> kind, index |-> index]

\* RemoteCloud::synchronization_enabled
SynchronizationEnabled_Always(d) == TRUE

SynchronizationEnabled(d) == sync_state[d].synchronization_enabled

\* RemoteCloud::latest_confirmed_index
LatestConfirmedIndex(d) == sync_state[d].latest_confirmed_index

\* RemoteCloud::set_latest_confirmed_index: set in memory, then persist.
SetLatestConfirmedIndex(d, new_index) ==
    /\ sync_state' = [sync_state EXCEPT ![d].latest_confirmed_index = new_index]
    /\ sync_db' = [sync_db EXCEPT ![d] = [sync_state[d] EXCEPT !.latest_confirmed_index = new_index]]

\* The push loop's skip: `if confirmed_index >= i { continue }`.
Skips(confirmed, i) == confirmed # NoIndex /\ confirmed >= i

\* The push loop's comparison of the relay's transaction with the local one.
HashesMatch_Always(remote_tx, tx) == TRUE

HashesMatch(remote_tx, tx) == TxHash(remote_tx) = TxHash(tx)

\* The end of a tick that returns Ok(()) from its last line.
EndResult(broke) == IF broke THEN "unknown_status" ELSE "ok"

\* Out of the push loop (its end, or `break`): on to receive().
AfterPushLoop(d, jl, st, broke) ==
    /\ tick' = [tick EXCEPT ![d] =
           [pc |-> "recv", i |-> 0, journal_len |-> jl, remote_index |-> 0,
            current_index |-> 0, broke |-> broke, result |-> tick[d].result]]
    /\ status' = [status EXCEPT ![d] = st]

\* `for i in 0..journal_len` from index i on, the cursor being `confirmed`:
\* up to the next GET /mutation, or out of the loop.
PushLoopFrom(d, i, confirmed, jl, st) ==
    LET j == IF Skips(confirmed, i) THEN confirmed + 1 ELSE i
    IN  IF j < jl
        THEN /\ tick' = [tick EXCEPT ![d] =
                    [pc |-> "push", i |-> j, journal_len |-> jl, remote_index |-> 0,
                     current_index |-> 0, broke |-> FALSE, result |-> tick[d].result]]
             /\ status' = [status EXCEPT ![d] = st]
        ELSE AfterPushLoop(d, jl, st, FALSE)

\* `while remote_index > current_index` from current_index on: up to the next
\* GET /mutation, or to the end of the tick.
PullLoopFrom(d, current, remote, broke) ==
    IF remote > current
    THEN /\ tick' = [tick EXCEPT ![d] =
                [pc |-> "pull", i |-> 0, journal_len |-> tick[d].journal_len,
                 remote_index |-> remote, current_index |-> current,
                 broke |-> broke, result |-> tick[d].result]]
         /\ status' = [status EXCEPT ![d] = Status("downloading", NoIndex)]
    ELSE /\ tick' = [tick EXCEPT ![d] = Idle(EndResult(broke))]
         /\ status' = IF current = remote
                      THEN [status EXCEPT ![d] = Status("synced", NoIndex)]
                      ELSE status

\* The tick returns Err (or panics): the ticker logs it and goes on.
TickFails(d) ==
    /\ tick' = [tick EXCEPT ![d] = Idle("error")]
    /\ UNCHANGED <<status, inbox>>

\* NetworkConnection::is_open().is_ok() on the connection held: an attempt
\* under way and a connection that opened (whether or not it closed since)
\* answer Ok, a failed attempt answers Err.
IsConnected(c) == c \in {"pending", "open", "closed"}

\* RemoteCloud::reconnect_if_needed
ReconnectIfNeeded(c) == IF IsConnected(c) THEN c ELSE "pending"

\* The sockets in authed_listeners of durable object q.  Every device asks
\* for the upgrade with its cloud's id; the relay registers the socket when it
\* serves the upgrade, before the client sees the connection open, and drops
\* it when the socket closes.
ListenerSets(q) ==
    LET registered == {d \in Devices : connection[d] = "open"}
        upgrading == {d \in Devices : connection[d] = "pending"}
    IN  IF q = DeviceCloud THEN {registered \cup u : u \in SUBSET upgrading} ELSE {{}}

\* The worker sends CloudMutated to its listeners; the server broadcasts
\* nothing.
Broadcast(accepted, listeners) ==
    IF accepted /\ relayKind = "worker"
    THEN [d \in Devices |-> inbox[d] \/ d \in listeners]
    ELSE inbox

\* tick, lines 123-140: the disabled check, then into the push loop.
TickStart(d) ==
    /\ tick[d].pc = "idle"
    /\ IF ~SynchronizationEnabled(d)
       THEN /\ tick' = [tick EXCEPT ![d] = Idle("disabled")]
            /\ status' = [status EXCEPT ![d] = Status("disabled", NoIndex)]
            /\ inbox' = [inbox EXCEPT ![d] = FALSE]
            /\ connection' = [connection EXCEPT ![d] = "none"]
       ELSE /\ PushLoopFrom(d, 0, LatestConfirmedIndex(d), Len(journal[d]), status[d])
            /\ connection' = [connection EXCEPT ![d] = ReconnectIfNeeded(@)]
            /\ UNCHANGED inbox
    /\ UNCHANGED <<appVars, cryptoVars, relayVars, last, journal, sync_state, sync_db, initial_sync_complete, resumed, faults>>

\* The push loop's test for the answer that lets it POST:
\* `res.status() == StatusCode::FAILED_DEPENDENCY`.
AnswersMissing_AnyFailure(st) == TRUE

AnswersMissing(st) == st = FAILED_DEPENDENCY

\* tick, lines 147-181 and 206-209: GET /mutation for the first unconfirmed
\* index, answered by the relay.
PushGet(d) ==
    LET i == tick[d].i
        tx == JournalTxByIndex(journal[d], i)
        st == GetStatus(DeviceCloud, i)
        dec == DecryptTx(DeviceSecret, table[DeviceCloud][i])
    IN  /\ tick[d].pc = "push"
        /\ RelayRead(DeviceCloud)
        /\ IF IsSuccess(st)
           THEN IF ~dec.ok \/ dec.index # i
                THEN TickFails(d) /\ UNCHANGED <<sync_state, sync_db>>
                ELSE IF HashesMatch(dec.tx, tx)
                THEN /\ SetLatestConfirmedIndex(d, i)
                     /\ PushLoopFrom(d, i + 1, i, tick[d].journal_len, Status("confirmed", i))
                     /\ UNCHANGED inbox
                ELSE /\ tick' = [tick EXCEPT ![d] = Idle("diverged")]
                     /\ status' = [status EXCEPT ![d] = Status("diverged", i)]
                     /\ UNCHANGED <<sync_state, sync_db, inbox>>
           ELSE IF AnswersMissing(st)
           THEN /\ tick' = [tick EXCEPT ![d].pc = "post"]
                /\ status' = [status EXCEPT ![d] = Status("broadcasting", NoIndex)]
                /\ UNCHANGED <<sync_state, sync_db, inbox>>
           ELSE /\ AfterPushLoop(d, tick[d].journal_len, status[d], TRUE)
                /\ UNCHANGED <<sync_state, sync_db, inbox>>
        /\ UNCHANGED <<appVars, cryptoVars, connection, resumed, last, journal, initial_sync_complete, faults>>

\* The same GET failing: the call errors (the tick returns Err), or an
\* unexpected status comes back and the loop breaks.
PushGetFault(d) ==
    /\ tick[d].pc = "push"
    /\ faults < MaxFaults
    /\ faults' = faults + 1
    /\ \/ TickFails(d)
       \/ AfterPushLoop(d, tick[d].journal_len, status[d], TRUE) /\ UNCHANGED inbox
    /\ UNCHANGED <<appVars, cryptoVars, connection, resumed, relayVars, last, journal, sync_state, sync_db, initial_sync_complete>>

\* tick, lines 182-205: encrypt the local transaction under a fresh salt and
\* POST it.
PushPost(d) ==
    /\ tick[d].pc = "post"
    /\ \E salt \in DeviceSalts(d), listeners \in ListenerSets(DeviceCloud) :
         LET i == tick[d].i
             m == EncryptTx(DeviceSecret, JournalTxByIndex(journal[d], i), salt)
             st == PostStatus(m)
         IN  /\ PostMutate(DeviceCloud, m)
             /\ IF IsSuccess(st)
                THEN /\ SetLatestConfirmedIndex(d, i)
                     /\ PushLoopFrom(d, i + 1, i, tick[d].journal_len, status[d])
                     /\ inbox' = Broadcast(TRUE, listeners)
                ELSE /\ tick' = [tick EXCEPT ![d] = Idle("push_failed")]
                     /\ UNCHANGED <<sync_state, sync_db, status, inbox>>
    /\ UNCHANGED <<appVars, cryptoVars, connection, resumed, last, journal, initial_sync_complete, faults>>

\* The same POST failing: the response is lost after the relay served the
\* request, or the request never reaches the relay; the tick returns Err.
PushPostFault(d) ==
    /\ tick[d].pc = "post"
    /\ faults < MaxFaults
    /\ faults' = faults + 1
    /\ \/ \E salt \in DeviceSalts(d) :
            LET i == tick[d].i
                m == EncryptTx(DeviceSecret, JournalTxByIndex(journal[d], i), salt)
            IN  PostMutate(DeviceCloud, m)
       \/ UNCHANGED relayVars
    /\ TickFails(d)
    /\ UNCHANGED <<appVars, cryptoVars, connection, resumed, last, journal, sync_state, sync_db, initial_sync_complete>>

\* tick, lines 212-227: receive() drains the connection; the tick returns
\* early when nothing but Pong arrived and the relay state was polled before.
Receive(d) ==
    /\ tick[d].pc = "recv"
    /\ inbox' = [inbox EXCEPT ![d] = FALSE]
    /\ IF ~inbox[d] /\ initial_sync_complete[d]
       THEN /\ tick' = [tick EXCEPT ![d] = Idle(EndResult(tick[d].broke))]
            /\ status' = [status EXCEPT ![d] = Status("synced", NoIndex)]
       ELSE /\ tick' = [tick EXCEPT ![d].pc = "state"]
            /\ UNCHANGED status
    /\ resumed' = [resumed EXCEPT ![d] = FALSE]
    /\ UNCHANGED <<appVars, cryptoVars, connection, relayVars, last, journal, sync_state, sync_db, initial_sync_complete, faults>>

\* tick, lines 229-240 and 274-282: GET /state, then into the pull loop.
StatePoll(d) ==
    /\ tick[d].pc = "state"
    /\ RelayRead(DeviceCloud)
    /\ initial_sync_complete' = [initial_sync_complete EXCEPT ![d] = TRUE]
    /\ PullLoopFrom(d, tick[d].journal_len, StateAnswer(DeviceCloud), tick[d].broke)
    /\ UNCHANGED <<appVars, cryptoVars, connection, resumed, last, journal, sync_state, sync_db, inbox, faults>>

\* GET /state failing: a non-success status ("failed to get server state",
\* the tick returns Ok) or an error.
StatePollFault(d) ==
    /\ tick[d].pc = "state"
    /\ faults < MaxFaults
    /\ faults' = faults + 1
    /\ \/ tick' = [tick EXCEPT ![d] = Idle("state_failed")] /\ UNCHANGED <<status, inbox>>
       \/ TickFails(d)
    /\ UNCHANGED <<appVars, cryptoVars, connection, resumed, relayVars, last, journal, sync_state, sync_db, initial_sync_complete>>

\* tick, lines 241-272: GET /mutation for the next index the relay has and the
\* local journal lacks; decrypt, append, advance the cursor.
PullGet(d) ==
    LET ci == tick[d].current_index
        st == GetStatus(DeviceCloud, ci)
        dec == DecryptTx(DeviceSecret, table[DeviceCloud][ci])
    IN  /\ tick[d].pc = "pull"
        /\ RelayRead(DeviceCloud)
        /\ IF IsSuccess(st)
           THEN IF ~dec.ok \/ ~AppendTxAccepts(journal[d], dec.tx)
                THEN TickFails(d) /\ UNCHANGED <<journal, sync_state, sync_db>>
                ELSE /\ journal' = [journal EXCEPT ![d] = Append(@, dec.tx)]
                     /\ SetLatestConfirmedIndex(d, ci)
                     /\ PullLoopFrom(d, ci + 1, tick[d].remote_index, tick[d].broke)
                     /\ UNCHANGED inbox
           ELSE /\ tick' = [tick EXCEPT ![d] = Idle("download_error")]
                /\ status' = [status EXCEPT ![d] = Status("download_error", NoIndex)]
                /\ UNCHANGED <<journal, sync_state, sync_db, inbox>>
        /\ UNCHANGED <<appVars, cryptoVars, connection, resumed, last, initial_sync_complete, faults>>

\* The same GET failing: a non-success status breaks the loop, an error ends
\* the tick.
PullGetFault(d) ==
    /\ tick[d].pc = "pull"
    /\ faults < MaxFaults
    /\ faults' = faults + 1
    /\ \/ /\ tick' = [tick EXCEPT ![d] = Idle("download_error")]
          /\ status' = [status EXCEPT ![d] = Status("download_error", NoIndex)]
          /\ UNCHANGED inbox
       \/ TickFails(d)
    /\ UNCHANGED <<appVars, cryptoVars, connection, resumed, relayVars, last, journal, sync_state, sync_db, initial_sync_complete>>

\* The application commits a transaction to the cloud's journal.
LocalCommit(d) ==
    /\ Len(journal[d]) < MaxLen
    /\ journal' = [journal EXCEPT ![d] = Append(@, CommitTx(@, Payload(d)))]
    /\ UNCHANGED <<appVars, cryptoVars, connection, resumed, relayVars, last, sync_state, sync_db, initial_sync_complete, inbox,
                   tick, status, faults>>

\* RemoteCloud::set_synchronization_enabled
SetSynchronizationEnabled(d, enabled) ==
    /\ sync_state[d].synchronization_enabled # enabled
    /\ faults < MaxFaults
    /\ faults' = faults + 1
    /\ sync_state' = [sync_state EXCEPT ![d].synchronization_enabled = enabled]
    /\ sync_db' = [sync_db EXCEPT ![d] = [sync_state[d] EXCEPT !.synchronization_enabled = enabled]]
    /\ initial_sync_complete' =
           IF enabled THEN initial_sync_complete
           ELSE [initial_sync_complete EXCEPT ![d] = FALSE]
    /\ resumed' = [resumed EXCEPT ![d] = enabled]
    /\ UNCHANGED <<appVars, cryptoVars, connection, relayVars, last, journal, inbox, tick, status>>

\* CloudSyncState::default (the relay URLs are left out).
DefaultSyncState == [latest_confirmed_index |-> NoIndex, synchronization_enabled |-> TRUE]

\* What RemoteCloud::new loads: the persisted CloudSyncState.
LoadSyncState_Default(d) == DefaultSyncState

LoadSyncState(d) == sync_db[d]

\* The client process stops and starts again: RemoteCloud::new reloads the
\* persisted cursor; the journal is on disk; everything else starts afresh.
Restart(d) ==
    /\ faults < MaxFaults
    /\ faults' = faults + 1
    /\ sync_state' = [sync_state EXCEPT ![d] = LoadSyncState(d)]
    /\ initial_sync_complete' = [initial_sync_complete EXCEPT ![d] = FALSE]
    /\ inbox' = [inbox EXCEPT ![d] = FALSE]
    /\ tick' = [tick EXCEPT ![d] = Idle("none")]
    /\ status' = [status EXCEPT ![d] = Status("none", NoIndex)]
    /\ connection' = [connection EXCEPT ![d] = "none"]
    /\ resumed' = [resumed EXCEPT ![d] = FALSE]
    /\ UNCHANGED <<appVars, cryptoVars, relayVars, last, journal, sync_db>>

\* The connection attempt of device d succeeds: the relay served the upgrade.
WsOpens(d) ==
    /\ connection[d] = "pending"
    /\ connection' = [connection EXCEPT ![d] = "open"]
    /\ UNCHANGED <<appVars, cryptoVars, relayVars, last, journal, sync_state, sync_db,
                   initial_sync_complete, inbox, tick, status, resumed, faults>>

\* The connection attempt of device d fails (connect_async returns Err).
WsFails(d) ==
    /\ connection[d] = "pending"
    /\ faults < MaxFaults
    /\ faults' = faults + 1
    /\ connection' = [connection EXCEPT ![d] = "failed"]
    /\ UNCHANGED <<appVars, cryptoVars, relayVars, last, journal, sync_state, sync_db,
                   initial_sync_complete, inbox, tick, status, resumed>>

\* The open connection of device d closes: the stream ends, the relay drops
\* the socket from its listeners.
WsCloses(d) ==
    /\ connection[d] = "open"
    /\ faults < MaxFaults
    /\ faults' = faults + 1
    /\ connection' = [connection EXCEPT ![d] = "closed"]
    /\ UNCHANGED <<appVars, cryptoVars, relayVars, last, journal, sync_state, sync_db,
                   initial_sync_complete, inbox, tick, status, resumed>>

\* ------------------------------------------------------------ relay requests
\* A transaction body for requests that do not come from a modelled device.
ForeignTx(index) == [index |-> index, operations |-> 0, last_tx_hash |-> ZeroHash]

\* Salts of the bodies POSTed for the cloud of secret k: the devices' cloud
\* gets several bodies per index, the other cloud one.
ForeignSalts(k) == IF k = DeviceSecret THEN Salts ELSE {1}

\* Bodies POSTed by arbitrary HTTP clients: well-formed mutations, mutations
\* whose data was altered after signing, mutations naming a public key that
\* is not the cloud's, and index-0 mutations without their public key.
ForeignMutations ==
    LET honest == UNION {{EncryptTx(k, ForeignTx(i), s) : i \in 0..MaxLen, s \in ForeignSalts(k)} :
                         k \in Secrets}
        plain == {m \in honest : m.salt = 1}
    IN  honest
        \cup {[m EXCEPT !.data.noise = 1] : m \in plain}
        \cup {[m EXCEPT !.public_key = VerifyingKey(3 - m.signature.signer)] : m \in plain}
        \cup {[m EXCEPT !.public_key = None] : m \in {x \in plain : x.index = 0}}

HttpPostMutate(q, m) ==
    /\ PostMutate(q, m)
    /\ last' = [op |-> "post", cloud |-> m.public_key_hash, index |-> m.index, salt |-> m.salt,
                status |-> PostStatus(m), count |-> NoIndex]
    /\ \E listeners \in ListenerSets(q) : inbox' = Broadcast(IsSuccess(PostStatus(m)), listeners)
    /\ UNCHANGED <<appVars, cryptoVars, journal, sync_state, sync_db, initial_sync_complete,
                   tick, status, connection, resumed, faults>>

HttpGetState(q) ==
    /\ RelayRead(q)
    /\ last' = [op |-> "state", cloud |-> q, index |-> NoIndex, salt |-> None,
                status |-> OK, count |-> StateAnswer(q)]
    /\ UNCHANGED <<appVars, cryptoVars, clientVars, faults>>

HttpGetMutation(q, i) ==
    /\ RelayRead(q)
    /\ last' = [op |-> "mutation", cloud |-> q, index |-> i, salt |-> None,
                status |-> GetStatus(q, i), count |-> NoIndex]
    /\ UNCHANGED <<appVars, cryptoVars, clientVars, faults>>

\* GET /state or GET /mutation whose cloud_id is missing or is no hex string
\* (or, for /mutation, whose index is missing): 400 before anything is read.
HttpGetMalformed(op) ==
    /\ last' = [op |-> op, cloud |-> None, index |-> NoIndex, salt |-> None,
                status |-> BAD_REQUEST, count |-> NoIndex]
    /\ UNCHANGED <<appVars, cryptoVars, relayVars, clientVars, faults>>

\* The bytes the relay stores for (c, i) are altered after they were stored:
\* bits of the mutation's data are flipped.
TamperStored(c, i) ==
    /\ i \in DOMAIN table[c]
    /\ table[c][i].data.noise = 0
    /\ faults < MaxFaults
    /\ faults' = faults + 1
    /\ table' = [table EXCEPT ![c][i].data.noise = 1]
    /\ UNCHANGED <<appVars, cryptoVars, relayKind, known_public_keys, bucket_count, mutation_count_lock,
                   last, clientVars>>

\* ------------------------------------------------------------ crypto calls
\* Transactions handed to encrypt_tx.
CryptoTxs ==
    {[index |-> i, operations |-> o, last_tx_hash |-> ZeroHash] : i \in 0..(MaxLen - 1), o \in {1, 2}}

\* A mutation put together by a holder of secret k without encrypt_tx: the
\* transaction is encrypted and signed as encrypt_tx does, but the mutation is
\* labelled (and its key derived) with an index of the builder's choice.
Craft(k, tx, index, salt) ==
    LET data == ApplyKeystream(MutationKey(k, index, salt), tx)
    IN  [index |-> index,
         data |-> data,
         signature |-> Sign(k, data),
         public_key_hash |-> IdFromKey(k),
         public_key |-> IF index = 0 THEN VerifyingKey(k) ELSE None,
         salt |-> salt,
         mutation_key |-> None]

\* The fields of Mutation.
MutationFields ==
    {"index", "data", "signature", "public_key_hash", "public_key", "salt", "mutation_key"}

\* The mutations that differ from m in exactly the named field ("none": m
\* itself).
Alterations(m, field) ==
    CASE field = "none" -> {m}
      [] field = "index" -> {[m EXCEPT !.index = j] : j \in (0..MaxLen) \ {m.index}}
      [] field = "data" -> {[m EXCEPT !.data.noise = 1]}
      [] field = "signature" ->
             {[m EXCEPT !.signature.signer = j] : j \in (Secrets \cup {None}) \ {m.signature.signer}}
      [] field = "public_key_hash" ->
             {[m EXCEPT !.public_key_hash = c] : c \in (CloudIds \cup {None}) \ {m.public_key_hash}}
      [] field = "public_key" ->
             {[m EXCEPT !.public_key = pk] : pk \in (PublicKeys \cup {None}) \ {m.public_key}}
      [] field = "salt" -> {[m EXCEPT !.salt = j] : j \in Salts \ {m.salt}}
      [] field = "mutation_key" -> {[m EXCEPT !.mutation_key = 1]}

\* Bytes that are no cloud's public key.
ArbitraryKey == 99

\* The salts of the mutations built so far.
UsedSalts == {made[n].m.salt : n \in DOMAIN made}

NoProbe == [op |-> "none", n |-> 0, field |-> "none", key |-> None, m |-> None,
            ok |-> FALSE, tx |-> None]

\* A call of encrypt_tx by a holder of secret k; rand::random() gives a salt
\* that was not drawn before.
EncryptCall(k, tx, salt) ==
    /\ Len(made) < MaxMade
    /\ salt \notin UsedSalts
    /\ made' = Append(made, [k |-> k, tx |-> tx, m |-> EncryptTx(k, tx, salt), by |-> "encrypt_tx"])
    /\ UNCHANGED <<appVars, probe, relayVars, last, clientVars, faults>>

\* A holder of secret k builds a mutation whose index is not its
\* transaction's.
CraftCall(k, tx, index, salt) ==
    /\ Len(made) < MaxMade
    /\ salt \notin UsedSalts
    /\ index # tx.index
    /\ made' = Append(made, [k |-> k, tx |-> tx, m |-> Craft(k, tx, index, salt), by |-> "crafted"])
    /\ UNCHANGED <<appVars, probe, relayVars, last, clientVars, faults>>

\* Mutation::verify called with public_key on the n-th mutation, altered in
\* `field`.  A behaviour records one call: its result depends on nothing but
\* its arguments.
VerifyCall(n, field, m, public_key) ==
    /\ probe = NoProbe
    /\ n \in DOMAIN made
    /\ m \in Alterations(made[n].m, field)
    /\ probe' = [op |-> "verify", n |-> n, field |-> field, key |-> public_key, m |-> m,
                 ok |-> MutationVerify(m, public_key), tx |-> None]
    /\ UNCHANGED <<appVars, made, relayVars, last, clientVars, faults>>

\* decrypt_tx called by a holder of secret k on the n-th mutation, altered in
\* `field`.
DecryptCall(n, field, m, k) ==
    /\ probe = NoProbe
    /\ n \in DOMAIN made
    /\ m \in Alterations(made[n].m, field)
    /\ probe' = [op |-> "decrypt", n |-> n, field |-> field, key |-> k, m |-> m,
                 ok |-> DecryptTx(k, m).ok, tx |-> DecryptTx(k, m).tx]
    /\ UNCHANGED <<appVars, made, relayVars, last, clientVars, faults>>

\* ------------------------------------------------------------ AppState
\* The device whose AppState (registry and background ticker) is modelled.
AppDevice == "B"

\* The length of a cloud secret in bytes.
KeyLen == 32

\* A text typed into the import field, as far as trim and hex::decode tell
\* texts apart: the whitespace around it, the number of hex digits in it, the
\* number of other characters in it, and the secret its digits spell.
ImportTexts ==
    {text \in [ws_before : {0, 1}, ws_after : {0, 1}, others : {0, 1},
               digits : {2 * KeyLen - 2, 2 * KeyLen - 1, 2 * KeyLen, 2 * KeyLen + 2},
               spells : Secrets] :
        text.others = 1 => text.ws_before + text.ws_after = 0}

\* str::trim
Trim(text) == [text EXCEPT !.ws_before = 0, !.ws_after = 0]

\* hex::decode: an error on a character that is no hex digit and on an odd
\* length, else one byte per two digits.
HexDecode(text) ==
    IF text.ws_before + text.ws_after + text.others > 0 \/ text.digits % 2 = 1
    THEN [ok |-> FALSE, len |-> 0, value |-> None]
    ELSE [ok |-> TRUE, len |-> text.digits \div 2, value |-> text.spells]

\* import_cloud's checks on the decoded key.
KeyAccepted_AnyLength(decoded) == decoded.ok

KeyAccepted(decoded) == decoded.ok /\ decoded.len = KeyLen

\* Cloud::from_key on the journal it opens: default metadata is inserted when
\* the journal holds none.
FromKey(j) == IF Len(j) = 0 THEN <<CommitTx(j, Payload(AppDevice))>> ELSE j

\* The journals after Cloud::from_key ran for secret k on the modelled device
\* (of the clouds' journals, the model keeps the one of the devices' cloud).
JournalsAfterFromKey(k) ==
    IF k = DeviceSecret THEN [journal EXCEPT ![AppDevice] = FromKey(@)] ELSE journal

NoText == [ws_before |-> 0, ws_after |-> 0, others |-> 0, digits |-> 0, spells |-> None]

NoCall == [op |-> "none", text |-> NoText, ok |-> FALSE, id |-> None]

\* AppState::import_cloud
ImportCloud(text) ==
    LET decoded == HexDecode(Trim(text))
        ok == KeyAccepted(decoded)
        k == decoded.value
    IN  /\ called' = [op |-> "import_cloud", text |-> text, ok |-> ok,
                      id |-> IF ok THEN IdFromKey(k) ELSE None]
        /\ known_keys' = IF ok THEN known_keys \cup {k} ELSE known_keys
        /\ journal' = IF ok THEN JournalsAfterFromKey(k) ELSE journal
        /\ UNCHANGED <<clouds, remote_clouds, active_cloud_id, ticker, ticking, fork,
                       cryptoVars, relayVars, last, sync_state, sync_db, initial_sync_complete,
                       inbox, tick, status, connection, resumed, faults>>

\* AppState::create_cloud: rand::random() gives a secret nobody holds.
CreateCloud(k) ==
    /\ k \notin known_keys
    /\ k # DeviceSecret
    /\ known_keys' = known_keys \cup {k}
    /\ clouds' = clouds \cup {IdFromKey(k)}
    /\ called' = [op |-> "create_cloud", text |-> NoText, ok |-> TRUE, id |-> IdFromKey(k)]
    /\ UNCHANGED <<remote_clouds, active_cloud_id, ticker, ticking, fork,
                   cryptoVars, relayVars, last, clientVars, faults>>

\* The reserved key of the known-keys table: [0; 32].
ACTIVE_CLOUD_KEY == 0

\* The known-keys table: the secret of every known cloud under the cloud's
\* id, and the active cloud id, once one was set, under the reserved key.
KnownKeysTable ==
    [key \in {IdFromKey(k) : k \in known_keys}
              \cup (IF active_cloud_id = None THEN {} ELSE {ACTIVE_CLOUD_KEY}) |->
        IF key = ACTIVE_CLOUD_KEY THEN active_cloud_id
        ELSE CHOOSE k \in known_keys : IdFromKey(k) = key]

\* AppState::cloud_keys: the values of the table but the reserved entry's.
CloudKeys_WholeTable == {KnownKeysTable[key] : key \in DOMAIN KnownKeysTable}

CloudKeys == {KnownKeysTable[key] : key \in DOMAIN KnownKeysTable \ {ACTIVE_CLOUD_KEY}}

\* AppState::cloud_keys mapped through Cloud::id_from_key: next_cloud_ids.
NextCloudIds == {IdFromKey(k) : k \in CloudKeys}

\* AppState::active_cloud: the cloud of the active id, if the clouds map has it.
ActiveCloud ==
    IF active_cloud_id # None /\ active_cloud_id \in clouds THEN active_cloud_id ELSE None

\* load_clouds, lines 123-137: the key set of the clouds map.
LoadedClouds(cl, ids) == (cl \cup ids) \cap ids

\* load_clouds, lines 139-151: the key set of the remote_clouds map.
LoadedRemotes_KeepOld(rc, cl) == rc

LoadedRemotes(rc, cl) == (rc \cup cl) \cap cl

\* AppState::load_clouds returning Ok.
LoadClouds ==
    /\ clouds' = LoadedClouds(clouds, NextCloudIds)
    /\ remote_clouds' = LoadedRemotes(remote_clouds, clouds')
    /\ journal' = IF DeviceCloud \in NextCloudIds \ clouds
                  THEN JournalsAfterFromKey(DeviceSecret)
                  ELSE journal
    /\ sync_state' = IF DeviceCloud \in remote_clouds' \ remote_clouds
                     THEN [sync_state EXCEPT ![AppDevice] = sync_db[AppDevice]]
                     ELSE sync_state
    /\ called' = [op |-> "load_clouds", text |-> NoText, ok |-> TRUE, id |-> None]
    /\ UNCHANGED <<known_keys, active_cloud_id, ticker, ticking, fork,
                   cryptoVars, relayVars, last, sync_db, initial_sync_complete,
                   inbox, tick, status, connection, resumed, faults>>

\* AppState::load_clouds returning Err from its first loop (a journal that
\* cannot be opened): the clouds inserted so far stay, nothing is retained.
LoadCloudsFails(inserted) ==
    /\ faults < MaxFaults
    /\ faults' = faults + 1
    /\ inserted \subseteq NextCloudIds \ clouds
    /\ inserted # NextCloudIds \ clouds
    /\ clouds' = clouds \cup inserted
    /\ journal' = IF DeviceCloud \in inserted THEN JournalsAfterFromKey(DeviceSecret) ELSE journal
    /\ called' = [op |-> "load_clouds", text |-> NoText, ok |-> FALSE, id |-> None]
    /\ UNCHANGED <<known_keys, remote_clouds, active_cloud_id, ticker, ticking, fork,
                   cryptoVars, relayVars, last, sync_state, sync_db, initial_sync_complete,
                   inbox, tick, status, connection, resumed>>

\* AppState::set_active_cloud
SetActiveCloud(id) ==
    /\ active_cloud_id' = id
    /\ called' = [op |-> "set_active_cloud", text |-> NoText, ok |-> TRUE, id |-> id]
    /\ UNCHANGED <<known_keys, clouds, remote_clouds, ticker, ticking, fork,
                   cryptoVars, relayVars, last, clientVars, faults>>

\* The orders in which HashMap::values may give the ids in s.
RECURSIVE Orders(_)
Orders(s) ==
    IF s = {} THEN {<<>>}
    ELSE UNION {{<<c>> \o o : o \in Orders(s \ {c})} : c \in s}

\* The background task is between two statements of its loop: asleep, or
\* about to call tick for the head of `remotes`, or awaiting that call; or it
\* has left the loop.  `failed`: a tick of this round returned Err.
TickerAt(pc, remotes, failed) == [pc |-> pc, remotes |-> remotes, failed |-> failed]

\* init, lines 101-106: the task wakes and clones the remotes to tick.
TickerSnapshot ==
    /\ ticker.pc = "sleep"
    /\ \E remotes \in Orders(remote_clouds) :
         ticker' = TickerAt(IF remotes = <<>> THEN "sleep" ELSE "call", remotes, FALSE)
    /\ UNCHANGED <<known_keys, clouds, remote_clouds, active_cloud_id, ticking, called, fork,
                   cryptoVars, relayVars, last, clientVars, faults>>

\* The loop calls tick only where it stands before the call: the call before
\* it was awaited.
MayCall_Unawaited(pc) == pc \in {"call", "await"}

MayCall(pc) == pc = "call"

\* init, line 108: remote.tick(..) is called.
TickerCall ==
    /\ MayCall(ticker.pc)
    /\ ticker' = TickerAt("await", ticker.remotes, ticker.failed)
    /\ ticking' = [ticking EXCEPT ![Head(ticker.remotes)] = @ + 1]
    /\ UNCHANGED <<known_keys, clouds, remote_clouds, active_cloud_id, called, fork,
                   cryptoVars, relayVars, last, clientVars, faults>>

\* What a call of tick returns.
TickResults == {"ok", "err"}

\* init, lines 108-110: `if let Err(e) = remote.tick(..).await { println!(..) }`
\* keeps the loop going whatever the tick returned.
LoopGoesOn_OnOkOnly(result) == result = "ok"

LoopGoesOn(result) == TRUE

\* init, lines 108-112: the awaited tick returns; on to the next remote, or
\* to sleep.
TickerReturn(result) ==
    /\ ticker.pc = "await"
    /\ ticking[Head(ticker.remotes)] > 0
    /\ ticking' = [ticking EXCEPT ![Head(ticker.remotes)] = @ - 1]
    /\ ticker' = IF LoopGoesOn(result)
                 THEN TickerAt(IF Tail(ticker.remotes) = <<>> THEN "sleep" ELSE "call",
                               Tail(ticker.remotes), ticker.failed \/ result = "err")
                 ELSE TickerAt("stopped", <<>>, TRUE)
    /\ UNCHANGED <<known_keys, clouds, remote_clouds, active_cloud_id, called, fork,
                   cryptoVars, relayVars, last, clientVars, faults>>

NoFork == [k |-> NoIndex, secret |-> None, source |-> <<>>, journal |-> <<>>]

\* The number of transactions duplicate_at(k, ..) replays: tx[0..=k].
ReplayCount_Exclusive(k) == k

ReplayCount(k) == k + 1

\* The first n transactions of src replayed as local commits on dst.
RECURSIVE Replay(_, _, _)
Replay(dst, src, n) ==
    IF n = 0 THEN dst
    ELSE LET before == Replay(dst, src, n - 1)
         IN  Append(before, CommitTx(before, src[n].operations))

\* duplicate_at(k, name) on the active cloud: a fresh cloud of secret
\* `secret`, whose journal is the replay of the source's tx[0..=k].
DuplicateAt(k, secret) ==
    /\ active_cloud_id = DeviceCloud
    /\ DeviceCloud \in clouds
    /\ k < Len(journal[AppDevice])
    /\ secret \notin known_keys
    /\ secret # DeviceSecret
    /\ fork' = [k |-> k, secret |-> secret, source |-> journal[AppDevice],
                journal |-> Replay(<<>>, journal[AppDevice], ReplayCount(k))]
    /\ known_keys' = known_keys \cup {secret}
    /\ clouds' = clouds \cup {IdFromKey(secret)}
    /\ called' = [op |-> "duplicate_at", text |-> NoText, ok |-> TRUE, id |-> IdFromKey(secret)]
    /\ UNCHANGED <<remote_clouds, active_cloud_id, ticker, ticking,
                   cryptoVars, relayVars, last, clientVars, faults>>

\* The registry of a first start: nothing known, the ticker spawned.
InitApp ==
    /\ known_keys = {}
    /\ clouds = {}
    /\ remote_clouds = {}
    /\ active_cloud_id = None
    /\ ticker = TickerAt("sleep", <<>>, FALSE)
    /\ ticking = [c \in CloudIds |-> 0]
    /\ called = NoCall
    /\ fork = NoFork

\* ------------------------------------------------------------ specifications
Init ==
    /\ relayKind \in {"server", "worker"}
    /\ table = [c \in CloudIds |-> EmptyTable]
    /\ known_public_keys = [c \in CloudIds |-> None]
    /\ bucket_count = [c \in CloudIds |-> 0]
    /\ mutation_count_lock = [c \in CloudIds |-> NoIndex]
    /\ last = NoExchange
    /\ journal = [d \in Devices |-> <<>>]
    /\ sync_state = [d \in Devices |-> DefaultSyncState]
    /\ sync_db = [d \in Devices |-> DefaultSyncState]
    /\ initial_sync_complete = [d \in Devices |-> FALSE]
    /\ inbox = [d \in Devices |-> FALSE]
    /\ tick = [d \in Devices |-> Idle("none")]
    /\ status = [d \in Devices |-> Status("none", NoIndex)]
    /\ faults = 0
    /\ made = <<>>
    /\ probe = NoProbe
    /\ connection = [d \in Devices |-> "none"]
    /\ resumed = [d \in Devices |-> FALSE]
    /\ InitApp

\* Devices sharing one secret, ticking against one relay.
Next ==
    \E d \in Devices :
        \/ TickStart(d)
        \/ PushGet(d)
        \/ PushGetFault(d)
        \/ PushPost(d)
        \/ PushPostFault(d)
        \/ Receive(d)
        \/ StatePoll(d)
        \/ StatePollFault(d)
        \/ PullGet(d)
        \/ PullGetFault(d)
        \/ LocalCommit(d)
        \/ \E enabled \in BOOLEAN : SetSynchronizationEnabled(d, enabled)
        \/ Restart(d)

Spec == Init /\ [][Next]_vars

\* The relay serving arbitrary HTTP requests.
NextRelay ==
    \/ \E q \in CloudIds, m \in ForeignMutations : HttpPostMutate(q, m)
    \/ \E q \in CloudIds : HttpGetState(q)
    \/ \E q \in CloudIds, i \in 0..MaxLen : HttpGetMutation(q, i)
    \/ \E op \in {"state", "mutation"} : HttpGetMalformed(op)

SpecRelay == Init /\ [][NextRelay]_vars

\* The device that only pulls.
Puller == "A"

\* The bodies POSTed for the devices' cloud.
DeviceCloudMutations == {m \in ForeignMutations : m.public_key_hash = DeviceCloud}

\* The relay serving arbitrary POSTs, its storage open to alteration, and a
\* device with nothing of its own to push ticking against it.
NextTamper ==
    \/ \E m \in DeviceCloudMutations : HttpPostMutate(DeviceCloud, m)
    \/ \E i \in 0..MaxLen : TamperStored(DeviceCloud, i)
    \/ TickStart(Puller)
    \/ Receive(Puller)
    \/ StatePoll(Puller)
    \/ PullGet(Puller)

SpecTamper == Init /\ [][NextTamper]_vars

\* The journal a device built by `len` local commits.
RECURSIVE ChainOf(_)
ChainOf(len) ==
    IF len = 0 THEN <<>>
    ELSE Append(ChainOf(len - 1), CommitTx(ChainOf(len - 1), Payload(Puller)))

\* The mutations a relay holds that accepted the first n transactions of
\* that journal.
StoredPrefix(n) == [i \in 0..(n - 1) |-> EncryptTx(DeviceSecret, ChainOf(n)[i + 1], 1)]

\* A device starts (RemoteCloud::new loads its persisted cursor) against a
\* relay that holds a prefix of the device's history or the whole of a longer
\* one.  The relay may hold less than the cursor confirms: BTKServer keeps
\* its mutations in memory (Journal::in_memory), a bucket can be emptied or
\* restored from an older copy.
InitStale ==
    /\ relayKind \in {"server", "worker"}
    /\ \E n \in 0..(MaxLen + 1), len \in 0..(MaxLen + 1) :
         \E cursor \in (0..(len - 1)) \cup {NoIndex} :
            /\ table = [c \in CloudIds |-> IF c = DeviceCloud THEN StoredPrefix(n) ELSE EmptyTable]
            /\ known_public_keys =
                   [c \in CloudIds |->
                       IF c = DeviceCloud /\ n > 0 THEN VerifyingKey(DeviceSecret) ELSE None]
            /\ bucket_count = [c \in CloudIds |-> IF c = DeviceCloud THEN n ELSE 0]
            /\ journal = [d \in Devices |-> IF d = Puller THEN ChainOf(len) ELSE <<>>]
            /\ sync_state =
                   [d \in Devices |->
                       IF d = Puller
                       THEN [DefaultSyncState EXCEPT !.latest_confirmed_index = cursor]
                       ELSE DefaultSyncState]
            /\ sync_db = sync_state
    /\ mutation_count_lock = [c \in CloudIds |-> NoIndex]
    /\ last = NoExchange
    /\ initial_sync_complete = [d \in Devices |-> FALSE]
    /\ inbox = [d \in Devices |-> FALSE]
    /\ tick = [d \in Devices |-> Idle("none")]
    /\ status = [d \in Devices |-> Status("none", NoIndex)]
    /\ faults = 0
    /\ made = <<>>
    /\ probe = NoProbe
    /\ connection = [d \in Devices |-> "none"]
    /\ resumed = [d \in Devices |-> FALSE]
    /\ InitApp

\* That device ticking, undisturbed.
NextStale ==
    \/ TickStart(Puller)
    \/ PushGet(Puller)
    \/ PushPost(Puller)
    \/ Receive(Puller)
    \/ StatePoll(Puller)
    \/ PullGet(Puller)

SpecStale == InitStale /\ [][NextStale]_vars

\* The fields a call may alter, "none" for the mutation as built.
ProbeFields == MutationFields \cup {"none"}

\* The mutations a call may be handed: the n-th one built, altered in `field`.
ProbeMutations(n, field) == IF n \in DOMAIN made THEN Alterations(made[n].m, field) ELSE {}

\* Key holders building mutations; anyone verifying and decrypting them.
NextCrypto ==
    \/ \E k \in Secrets, tx \in CryptoTxs, salt \in Salts : EncryptCall(k, tx, salt)
    \/ \E k \in Secrets, tx \in CryptoTxs, index \in 0..(MaxLen - 1), salt \in Salts :
           CraftCall(k, tx, index, salt)
    \/ \E n \in 1..MaxMade, field \in ProbeFields :
           \E m \in ProbeMutations(n, field), public_key \in PublicKeys \cup {ArbitraryKey} :
               VerifyCall(n, field, m, public_key)
    \/ \E n \in 1..MaxMade, field \in ProbeFields :
           \E m \in ProbeMutations(n, field), k \in Secrets : DecryptCall(n, field, m, k)

SpecCrypto == Init /\ [][NextCrypto]_vars

\* The bodies POSTed while the socket is watched: one well-formed mutation
\* per index, and the same with its data altered after signing.
NotifyMutations ==
    {m \in DeviceCloudMutations :
        /\ m.salt = 1
        /\ m.signature.signer = DeviceSecret
        /\ m.public_key = None <=> m.index # 0}

\* A device with nothing of its own to push ticking against a relay that
\* serves the POSTs of other clients; the device's notification socket opens,
\* fails to open and closes.
NextNotify ==
    \/ \E m \in NotifyMutations : HttpPostMutate(DeviceCloud, m)
    \/ TickStart(Puller)
    \/ Receive(Puller)
    \/ StatePoll(Puller)
    \/ PullGet(Puller)
    \/ WsOpens(Puller)
    \/ WsFails(Puller)
    \/ WsCloses(Puller)

SpecNotify == Init /\ [][NextNotify]_vars

\* The texts that spell the devices' secret.
DeviceImportTexts == {text \in ImportTexts : text.spells = DeviceSecret}

\* The registry of one device: its user creating, importing, activating and
\* duplicating clouds and committing to the devices' cloud, clouds being
\* reloaded, the background task going round.
NextApp ==
    \/ \E text \in ImportTexts : ImportCloud(text)
    \/ \E k \in Secrets : CreateCloud(k)
    \/ LoadClouds
    \/ \E inserted \in SUBSET CloudIds : LoadCloudsFails(inserted)
    \/ \E id \in CloudIds : SetActiveCloud(id)
    \/ TickerSnapshot
    \/ TickerCall
    \/ \E result \in TickResults : TickerReturn(result)
    \/ DeviceCloud \in clouds /\ LocalCommit(AppDevice)
    \/ \E k \in 0..(MaxLen - 1), secret \in Secrets : DuplicateAt(k, secret)

SpecApp == Init /\ [][NextApp]_vars

\* The background task going round while clouds are created, imported and
\* loaded; the task is scheduled again and again, and every call of tick
\* returns.
NextTicker ==
    \/ \E text \in DeviceImportTexts : ImportCloud(text)
    \/ \E k \in Secrets : CreateCloud(k)
    \/ LoadClouds
    \/ TickerSnapshot
    \/ TickerCall
    \/ \E result \in TickResults : TickerReturn(result)

SpecTicker ==
    /\ Init
    /\ [][NextTicker]_vars
    /\ WF_vars(TickerSnapshot)
    /\ WF_vars(TickerCall)
    /\ WF_vars(\E result \in TickResults : TickerReturn(result))

\* The relay holds the first n mutations of the cloud its creator built; the
\* importing device holds no journal of the cloud, or a copy of the creator's
\* journal up to some transaction.
InitImport ==
    /\ relayKind \in {"server", "worker"}
    /\ \E n \in 0..(MaxLen + 1) : \E len \in 0..n :
         /\ table = [c \in CloudIds |-> IF c = DeviceCloud THEN StoredPrefix(n) ELSE EmptyTable]
         /\ known_public_keys =
                [c \in CloudIds |->
                    IF c = DeviceCloud /\ n > 0 THEN VerifyingKey(DeviceSecret) ELSE None]
         /\ bucket_count = [c \in CloudIds |-> IF c = DeviceCloud THEN n ELSE 0]
         /\ journal = [d \in Devices |-> IF d = AppDevice THEN ChainOf(len) ELSE <<>>]
    /\ mutation_count_lock = [c \in CloudIds |-> NoIndex]
    /\ last = NoExchange
    /\ sync_state = [d \in Devices |-> DefaultSyncState]
    /\ sync_db = [d \in Devices |-> DefaultSyncState]
    /\ initial_sync_complete = [d \in Devices |-> FALSE]
    /\ inbox = [d \in Devices |-> FALSE]
    /\ tick = [d \in Devices |-> Idle("none")]
    /\ status = [d \in Devices |-> Status("none", NoIndex)]
    /\ faults = 0
    /\ made = <<>>
    /\ probe = NoProbe
    /\ connection = [d \in Devices |-> "none"]
    /\ resumed = [d \in Devices |-> FALSE]
    /\ InitApp

\* The device imports the cloud's secret, loads its clouds, and the
\* RemoteCloud load_clouds made for the cloud is ticked.
NextImport ==
    \/ \E text \in DeviceImportTexts : ImportCloud(text)
    \/ LoadClouds
    \/ DeviceCloud \in remote_clouds /\ TickStart(AppDevice)
    \/ PushGet(AppDevice)
    \/ PushPost(AppDevice)
    \/ Receive(AppDevice)
    \/ StatePoll(AppDevice)
    \/ PullGet(AppDevice)

SpecImport == InitImport /\ [][NextImport]_vars

\* ------------------------------------------------------------ claims
\* The number of mutations the relay stores for cloud c.
StoredCount(c) == Cardinality(DOMAIN table[c])

\* C1: for every cloud the relay's stored indices are exactly 0..N-1, GET
\* /state reports N, and a POST is accepted only with index = the number of
\* mutations stored before it.
C1_DenseAndStateReportsCount ==
    /\ \A c \in CloudIds :
         /\ DOMAIN table[c] = 0..(StoredCount(c) - 1)
         /\ StateAnswer(c) = StoredCount(c)
    /\ (last.op = "post" /\ IsSuccess(last.status)) => last.index = StoredCount(last.cloud) - 1

RelayTx(j) == DecryptTx(DeviceSecret, table[DeviceCloud][j])

\* The relay holds, at index j, a mutation that decrypts to device d's
\* transaction j.
Agrees(d, j) ==
    /\ j \in DOMAIN table[DeviceCloud]
    /\ j < Len(journal[d])
    /\ RelayTx(j).ok
    /\ TxHash(RelayTx(j).tx) = TxHash(JournalTxByIndex(journal[d], j))

\* The relay holds, at index j, a mutation that decrypts to a transaction
\* other than device d's transaction j.
Differs(d, j) ==
    /\ j \in DOMAIN table[DeviceCloud]
    /\ j < Len(journal[d])
    /\ RelayTx(j).ok
    /\ TxHash(RelayTx(j).tx) # TxHash(JournalTxByIndex(journal[d], j))

\* A step of device d's tick that the relay answered: its position changes and
\* nothing was disturbed.
TickStepOf(d) == tick'[d] # tick[d] /\ faults' = faults

\* Such a step ends the tick.
TickEndOf(d) == tick[d].pc # "idle" /\ tick'[d].pc = "idle" /\ faults' = faults

\* C3: whenever a device's latest_confirmed_index is i, the relay holds at
\* every index j <= i a mutation decrypting to a transaction with the hash of
\* the device's local transaction j.
C3_ConfirmedPrefixAgrees ==
    \A d \in Devices : \A j \in 0..LatestConfirmedIndex(d) : Agrees(d, j)

\* C3's case: a tick whose push loop broke on an unexpected status went on to
\* the pull phase, appended the relay's next transaction and moved the cursor
\* to it.
C3_Witness ==
    \E d \in Devices :
        /\ tick[d].pc = "idle"
        /\ tick[d].result = "unknown_status"
        /\ LatestConfirmedIndex(d) >= 1
        /\ LatestConfirmedIndex(d) = Len(journal[d]) - 1

Contested(n) ==
    /\ \A d \in Devices : Len(journal[d]) > n
    /\ TxHash(JournalTxByIndex(journal["A"], n)) # TxHash(JournalTxByIndex(journal["B"], n))

\* C5: of two devices holding different transactions at index n, never both
\* advance their cursor to n; and a tick that no disturbance preceded and that
\* covers an unconfirmed transaction ends with the cursor advanced over it, or
\* as the loser's: a rejected POST, or divergence reported at the index after
\* its cursor.
C5_ExactlyOneAdvances ==
    [][/\ \A n \in 0..(MaxLen - 1) :
            Contested(n) => \E d \in Devices : LatestConfirmedIndex(d) < n
       /\ \A d \in Devices :
            (/\ faults = 0
             /\ TickEndOf(d)
             /\ tick[d].journal_len > sync_state'[d].latest_confirmed_index + 1)
            => \/ tick'[d].result = "push_failed"
               \/ /\ tick'[d].result = "diverged"
                  /\ status'[d] = Status("diverged", sync_state'[d].latest_confirmed_index + 1)]_vars

\* C6: while a device's reported divergence at index i persists, its ticks
\* neither POST nor enter the pull phase (GET /state, pull loop).
C6_DivergenceHaltsSync ==
    \A d \in Devices :
        (status[d].kind = "diverged" /\ Differs(d, status[d].index))
            => tick[d].pc \notin {"post", "state", "pull"}

\* Device d's journal is a prefix of what the relay holds.
NoDivergence(d) == \A j \in 0..(Len(journal[d]) - 1) : Agrees(d, j)

\* C7: on every tick of an enabled device whose journal is a proper prefix of
\* the relay's mutations, the tick goes from its push loop on to GET /state,
\* and from there into the pull loop.
C7_RelayAheadIsPulled ==
    [][\A d \in Devices :
         (/\ TickStepOf(d)
          /\ sync_state[d].synchronization_enabled
          /\ NoDivergence(d)
          /\ StoredCount(DeviceCloud) > Len(journal[d]))
         => /\ tick[d].pc = "recv" => tick'[d].pc = "state"
            /\ tick[d].pc = "state" => tick'[d].pc = "pull"]_vars

\* Nothing was committed locally while device d's tick ran, and the relay
\* stored nothing since the tick polled its state.
Undisturbed(d) ==
    IF tick[d].pc = "pull"
    THEN tick[d].remote_index = StoredCount(DeviceCloud)
    ELSE Len(journal[d]) = tick[d].journal_len

\* C8: when a tick ends with every call answered successfully and no
\* divergence found, the local journal is as long as the relay's count and the
\* cursor is at its last index.
C8_SuccessfulCycleSynchronizes ==
    [][\A d \in Devices :
         (TickEndOf(d) /\ tick'[d].result = "ok" /\ Undisturbed(d))
         => /\ Len(journal'[d]) = StoredCount(DeviceCloud)'
            /\ sync_state'[d].latest_confirmed_index = Len(journal'[d]) - 1]_vars

\* C9: when the relay holds, at the index i after a device's cursor, a
\* mutation of the device's own transaction i (a POST whose acceptance the
\* device never recorded), an enabled tick starts its push loop with a GET of
\* index i, and that GET confirms i: the cursor becomes i, in memory and
\* persisted, and the relay's mutations and count are left as they were.
C9_StaleCursorConfirms ==
    [][\A d \in Devices :
         /\ (/\ tick[d].pc = "idle"
             /\ TickStepOf(d)
             /\ sync_state[d].synchronization_enabled
             /\ Agrees(d, LatestConfirmedIndex(d) + 1))
            => (tick'[d].pc = "push" /\ tick'[d].i = LatestConfirmedIndex(d) + 1)
         /\ (tick[d].pc = "push" /\ TickStepOf(d) /\ Agrees(d, tick[d].i))
            =>
            /\ sync_state'[d].latest_confirmed_index = tick[d].i
            /\ sync_db'[d].latest_confirmed_index = tick[d].i
            /\ status'[d] = Status("confirmed", tick[d].i)
            /\ table' = table
            /\ StateAnswer(DeviceCloud)' = StateAnswer(DeviceCloud)]_vars

\* C9's case: in the first tick of a restarted process the device confirmed,
\* by GET and compare, the index of a mutation it had POSTed itself.
C9_Witness ==
    \E d \in Devices : \E i \in DOMAIN table[DeviceCloud] :
        /\ tick[d].pc # "idle"
        /\ tick[d].result = "none"
        /\ status[d] = Status("confirmed", i)
        /\ table[DeviceCloud][i].salt \in DeviceSalts(d)
        /\ LatestConfirmedIndex(d) = i

\* C10: a GET /mutation of the push loop for an index the relay does not hold
\* sends the tick on to POST that index, and an accepted POST sets the cursor
\* to it.
C10_MissingIndexIsPosted ==
    [][\A d \in Devices :
         /\ (tick[d].pc = "push" /\ TickStepOf(d) /\ tick[d].i \notin DOMAIN table[DeviceCloud])
              => (tick'[d].pc = "post" /\ tick'[d].i = tick[d].i)
         /\ (tick[d].pc = "post" /\ TickStepOf(d) /\ tick[d].i \in DOMAIN table'[DeviceCloud]
               /\ tick[d].i \notin DOMAIN table[DeviceCloud])
              => sync_state'[d].latest_confirmed_index = tick[d].i]_vars

\* C11: every step that changes a device's journal appends exactly one
\* transaction, whose index is the journal's length before the step, and
\* leaves the journal with indices 0, 1, 2, ... in order (no gap, no
\* duplicate); this covers the pull phase's appends and local commits.
C11_AppendsAtNextIndex ==
    [][\A d \in Devices :
          journal'[d] # journal[d] =>
              /\ Len(journal'[d]) = Len(journal[d]) + 1
              /\ SubSeq(journal'[d], 1, Len(journal[d])) = journal[d]
              /\ journal'[d][Len(journal'[d])].index = Len(journal[d])
              /\ \A j \in 1..Len(journal'[d]) : journal'[d][j].index = j - 1]_vars

\* A device holds a full journal whose last transaction was pulled from the
\* relay (it carries the other device's payload).
C11_Witness ==
    \E d \in Devices :
        /\ Len(journal[d]) = MaxLen
        /\ journal[d][MaxLen].operations # Payload(d)
        /\ journal[d][MaxLen].index = MaxLen - 1
        /\ sync_state[d].latest_confirmed_index = MaxLen - 1

\* C12: decrypt_tx never succeeds on a mutation whose decrypted transaction
\* carries an index different from the mutation's index.
C12_InnerIndexMismatchFails ==
    (probe.op = "decrypt" /\ probe.ok) => probe.tx.index = probe.m.index

\* C13: Mutation::verify with the building cloud's verifying key fails on
\* every mutation that differs in exactly one field from one encrypt_tx built.
C13_AnyAlterationFailsVerify ==
    (/\ probe.op = "verify"
     /\ probe.field # "none"
     /\ made[probe.n].by = "encrypt_tx"
     /\ probe.key = VerifyingKey(made[probe.n].k))
        => ~probe.ok

\* C14: on a mutation as encrypt_tx built it under secret k, Mutation::verify
\* succeeds with the verifying key derived from k and fails with every other
\* public key offered (another secret's verifying key, arbitrary bytes).
C14_VerifiesUnderOwnKeyOnly ==
    (/\ probe.op = "verify"
     /\ probe.field = "none"
     /\ made[probe.n].by = "encrypt_tx")
        => (probe.ok <=> probe.key = VerifyingKey(made[probe.n].k))

\* verify was called on an index-0 mutation (which embeds its builder's key)
\* with another secret's verifying key, and failed.
C14_Witness ==
    /\ probe.op = "verify"
    /\ probe.field = "none"
    /\ made[probe.n].by = "encrypt_tx"
    /\ made[probe.n].m.index = 0
    /\ probe.key \in PublicKeys \ {VerifyingKey(made[probe.n].k)}
    /\ ~probe.ok

\* ---- vocabulary of C15
\* The POST of body m is served in this step.
PostServed(m) == HttpPostMutate(DeviceCloud, m)

\* Device d's pull loop is answered, in this step, with a stored mutation
\* whose data was altered after signing.
PullsAltered(d) ==
    /\ tick[d].pc = "pull"
    /\ TickStepOf(d)
    /\ tick[d].current_index \in DOMAIN table[DeviceCloud]
    /\ table[DeviceCloud][tick[d].current_index].data.noise # 0

\* The pull fails in decrypt_tx: the tick ends with an error and the journal
\* and the cursor are as before.
PullRefuses(d) ==
    /\ tick'[d].pc = "idle"
    /\ tick'[d].result = "error"
    /\ journal'[d] = journal[d]
    /\ sync_state'[d] = sync_state[d]
    /\ sync_db'[d] = sync_db[d]

\* C15 as stated: a POST of a mutation whose data was altered after signing is
\* answered 401 and leaves the relay as it was; a pull answered with such a
\* mutation fails and leaves journal and cursor as they were.
C15_AlteredDataAnswered401 ==
    [][/\ \A m \in DeviceCloudMutations :
            (m.data.noise # 0 /\ PostServed(m))
                => (last'.status = UNAUTHORIZED /\ relayVars' = relayVars)
       /\ \A d \in Devices : PullsAltered(d) => PullRefuses(d)]_vars

\* C15, amended: the POST is answered 401, or 400 when the mutation carries
\* no public key and the relay holds none for its cloud; in both cases the
\* relay is left as it was; the pull part as stated.
C15_AlteredDataNeverStored ==
    [][/\ \A m \in DeviceCloudMutations :
            (m.data.noise # 0 /\ PostServed(m))
                => /\ last'.status = (IF ResolvePublicKey(m) = None THEN BAD_REQUEST
                                      ELSE UNAUTHORIZED)
                   /\ relayVars' = relayVars
       /\ \A d \in Devices : PullsAltered(d) => PullRefuses(d)]_vars

\* An altered POST was answered 401, and a tick's pull ended in an error at a
\* stored mutation whose data was altered afterwards.
C15_Witness ==
    /\ last.op = "post"
    /\ last.status = UNAUTHORIZED
    /\ \E d \in Devices :
        /\ tick[d].pc = "idle"
        /\ tick[d].result = "error"
        /\ Len(journal[d]) \in DOMAIN table[DeviceCloud]
        /\ table[DeviceCloud][Len(journal[d])].data.noise # 0

\* C16: decrypt_tx with secret k on what encrypt_tx built from tx under the
\* same secret, whatever the salt drawn, succeeds and returns tx.
C16_RoundTrip ==
    (/\ probe.op = "decrypt"
     /\ probe.field = "none"
     /\ made[probe.n].by = "encrypt_tx"
     /\ probe.key = made[probe.n].k)
        => (probe.ok /\ probe.tx = made[probe.n].tx)

\* The second mutation built, for a transaction of index above 0, was
\* decrypted by its builder's secret.
C16_Witness ==
    /\ probe.op = "decrypt"
    /\ probe.field = "none"
    /\ probe.n = 2
    /\ made[2].by = "encrypt_tx"
    /\ made[2].tx.index > 0
    /\ probe.key = made[2].k
    /\ probe.ok
    /\ probe.tx = made[2].tx

\* C17: two encrypt_tx calls never share a salt, a key or a ciphertext, so no
\* (key, nonce) pair is used twice (the nonce is constant); and two calls for
\* the same secret and index both decrypt to what they were given (the same
\* plaintext when given the same transaction).
C17_FreshKeyPerCall ==
    \A n1 \in DOMAIN made : \A n2 \in DOMAIN made :
        (n1 # n2 /\ made[n1].by = "encrypt_tx" /\ made[n2].by = "encrypt_tx")
            => /\ made[n1].m.salt # made[n2].m.salt
               /\ EncryptionKey(made[n1].k, made[n1].tx, made[n1].m.salt)
                      # EncryptionKey(made[n2].k, made[n2].tx, made[n2].m.salt)
               /\ made[n1].m.data.key # made[n2].m.data.key
               /\ made[n1].m.data # made[n2].m.data
               /\ (made[n1].k = made[n2].k /\ made[n1].tx.index = made[n2].tx.index)
                      => /\ DecryptTx(made[n1].k, made[n1].m).ok
                         /\ DecryptTx(made[n1].k, made[n1].m).tx = made[n1].tx
                         /\ DecryptTx(made[n2].k, made[n2].m).ok
                         /\ DecryptTx(made[n2].k, made[n2].m).tx = made[n2].tx

\* The same secret encrypted the same transaction twice.
C17_Witness ==
    /\ Len(made) = 2
    /\ made[1].by = "encrypt_tx"
    /\ made[2].by = "encrypt_tx"
    /\ made[1].k = made[2].k
    /\ made[1].tx = made[2].tx
    /\ made[1].m.data # made[2].m.data
    /\ DecryptTx(made[1].k, made[1].m).tx = DecryptTx(made[2].k, made[2].m).tx

\* ---- vocabulary of C18
\* encrypt_tx attaches the cloud's verifying key to index 0 and to no other
\* index.
EncryptTxAttachesKeyAtZero ==
    \A k \in Secrets, s \in Salts, i \in 0..MaxLen :
        EncryptTx(k, ForeignTx(i), s).public_key = (IF i = 0 THEN VerifyingKey(k) ELSE None)

\* Every stored index-0 mutation carries a public key that hashes to its
\* public_key_hash.
StoredGenesisCarriesKey ==
    \A c \in CloudIds :
        0 \in DOMAIN table[c]
            => /\ table[c][0].public_key # None
               /\ Blake3Key(table[c][0].public_key) = table[c][0].public_key_hash

\* The POST of an index-0 body without public key is served in this step.
KeylessGenesisServed(q, m) ==
    m.index = 0 /\ m.public_key = None /\ HttpPostMutate(q, m)

ValidButMisplaced(m) ==
    /\ ResolvePublicKey(m) # None
    /\ MutationVerify(m, ResolvePublicKey(m))
    /\ m.index # StoredCount(m.public_key_hash)

\* C19: the POST of a validly signed mutation whose index is not the relay's
\* count for its cloud is answered 410 and leaves the stored mutations, the
\* counts and the known public keys as they were.
C19_MisplacedIndexAnswered410 ==
    [][\A q \in CloudIds, m \in ForeignMutations :
          (ValidButMisplaced(m) /\ HttpPostMutate(q, m))
              => (last'.status = GONE /\ relayVars' = relayVars)]_vars

\* ---- vocabulary of C20
\* Device d's POST is served in this step while the relay, which knows the
\* cloud's public key, stores fewer mutations than the index POSTed.
PostsAheadOfRelay(d) ==
    /\ tick[d].pc = "post"
    /\ TickStepOf(d)
    /\ known_public_keys[DeviceCloud] # None
    /\ StoredCount(DeviceCloud) < tick[d].i

C23_DisabledTickDoesNothing ==
    [][\A d \in Devices :
         (/\ tick[d].pc = "idle"
          /\ TickStepOf(d)
          /\ ~sync_state[d].synchronization_enabled)
         => /\ tick'[d] = Idle("disabled")
            /\ status'[d] = Status("disabled", NoIndex)
            /\ relayVars' = relayVars
            /\ last' = last
            /\ journal' = journal
            /\ sync_state' = sync_state
            /\ sync_db' = sync_db]_vars

\* C23's case: a disabled tick returned on a device whose journal holds
\* transactions its cursor does not cover.
C23_Witness ==
    \E d \in Devices :
        /\ tick[d] = Idle("disabled")
        /\ status[d] = Status("disabled", NoIndex)
        /\ ~sync_state[d].synchronization_enabled
        /\ Len(journal[d]) > LatestConfirmedIndex(d) + 1

\* This step of device d's tick sends 'Fully synchronized' (the status changes
\* to it).
EmitsSynced(d) == status'[d].kind = "synced" /\ status[d].kind # "synced"

\* C24: a tick sends 'Fully synchronized' only after it asked the relay for
\* its count (GET /state) and found it equal to the local journal length,
\* with every local transaction confirmed, and never when its push loop
\* stopped on an unexpected status.
C24_SyncedOnlyWhenEqual ==
    [][\A d \in Devices :
         EmitsSynced(d) =>
             /\ tick[d].pc \in {"state", "pull"}
             /\ ~tick[d].broke
             /\ tick[d].pc = "state" => StateAnswer(DeviceCloud) = tick[d].journal_len
             /\ tick[d].pc = "pull" => tick[d].current_index + 1 = tick[d].remote_index
             /\ sync_state'[d].latest_confirmed_index >= tick[d].journal_len - 1]_vars

\* How a tick ends that a failed or non-success HTTP call stopped.
TransportFailures == {"error", "state_failed", "download_error"}

\* C25: a step in which an HTTP call of a tick fails leaves the journal and
\* the cursor, in memory and as persisted, as they were; the tick after a
\* tick that such a failure ended starts its push loop at the first
\* unconfirmed index, and goes on from its push loop to GET /state: the
\* failure does not stop the pull.
C25_TransportFailureIsRetried ==
    [][\A d \in Devices :
         /\ (tick[d].pc # "idle" /\ tick'[d] # tick[d] /\ faults' = faults + 1)
              => /\ journal'[d] = journal[d]
                 /\ sync_state'[d].latest_confirmed_index = sync_state[d].latest_confirmed_index
                 /\ sync_db'[d].latest_confirmed_index = sync_db[d].latest_confirmed_index
         /\ (/\ tick[d].pc = "idle"
             /\ TickStepOf(d)
             /\ sync_state[d].synchronization_enabled
             /\ tick[d].result \in TransportFailures
             /\ LatestConfirmedIndex(d) + 1 < Len(journal[d]))
              => (tick'[d].pc = "push" /\ tick'[d].i = LatestConfirmedIndex(d) + 1)
         /\ (tick[d].pc = "recv" /\ TickStepOf(d) /\ tick[d].result \in TransportFailures)
              => tick'[d].pc = "state"]_vars

\* C26: a step in which the relay accepts a POST (it stores a mutation) leaves
\* a CloudMutated notification with every device whose socket to that cloud
\* is open, and a step in which it stores nothing leaves no device a
\* notification it did not have.
C26_AcceptedPostNotifiesSubscribers ==
    [][/\ table' # table => \A d \in Devices : connection[d] = "open" => inbox'[d]
       /\ table' = table => \A d \in Devices : inbox'[d] => inbox[d]]_vars

\* C30: an enabled tick that starts while the device's socket is not open
\* (never connected, attempt failed, or closed after it was open) starts a
\* connection attempt; and a tick whose socket failed or closed still goes
\* from its push loop on to GET /state.
C30_LostSocketIsReconnected ==
    [][\A d \in Devices :
         /\ (/\ tick[d].pc = "idle"
             /\ TickStepOf(d)
             /\ sync_state[d].synchronization_enabled
             /\ connection[d] \in {"none", "failed", "closed"})
              => connection'[d] = "pending"
         /\ (tick[d].pc = "recv" /\ TickStepOf(d) /\ connection[d] \in {"failed", "closed"})
              => tick'[d].pc = "state"]_vars

\* A call of import_cloud returns in this step.
ImportReturns == called'.op = "import_cloud" /\ called' # called

\* C21: importing the secret of a cloud leaves the device without a local
\* transaction that differs from the relay's mutation at index 0, and no tick
\* of the importing device reports divergence: its ticks pull the relay's
\* mutations into the journal.
C21_ImportAddsNoConflictingTx ==
    [][/\ (ImportReturns /\ called'.ok) => ~Differs(AppDevice, 0)'
       /\ status'[AppDevice].kind # "diverged"]_vars

C27_OneTickPerRemoteCloud ==
    /\ \A c \in CloudIds : ticking[c] <= 1
    /\ \A c \in CloudIds :
          ticking[c] = 1 => ticker.pc = "await" /\ Head(ticker.remotes) = c

\* A tick is in progress for a RemoteCloud of the task's snapshot while
\* load_clouds has since added another RemoteCloud.
C27_Witness ==
    /\ ticker.pc = "await"
    /\ ticking[Head(ticker.remotes)] = 1
    /\ called.op = "load_clouds"
    /\ called.ok
    /\ Len(ticker.remotes) = 1
    /\ remote_clouds = CloudIds

\* C28: after load_clouds returned successfully, the ids in the clouds map and
\* the ids in remote_clouds are both exactly the ids derived from the secrets
\* in the known-keys table.
C28_LoadCloudsMatchesKnownKeys ==
    (called.op = "load_clouds" /\ called.ok) =>
        /\ clouds = NextCloudIds
        /\ remote_clouds = NextCloudIds

\* load_clouds returned Ok after it had to add a cloud that was imported and
\* a RemoteCloud for a cloud that was created.
C28_Witness ==
    /\ called.op = "load_clouds"
    /\ called.ok
    /\ known_keys = Secrets
    /\ remote_clouds = CloudIds

\* The known-keys table, the clouds map and the active cloud id stay as they
\* are in this step.
RegistryUnchanged ==
    /\ known_keys' = known_keys
    /\ clouds' = clouds
    /\ active_cloud_id' = active_cloud_id

C31_PostsOnlyNextUnconfirmed ==
    [][\A d \in Devices :
          /\ tick'[d].pc = "post" =>
                tick'[d].i = sync_state'[d].latest_confirmed_index + 1
          /\ (tick'[d].pc = "post" /\ tick[d].pc # "post") =>
                GetStatus(DeviceCloud, tick'[d].i) = FAILED_DEPENDENCY]_vars

\* A device has POSTed its transaction 1 after transaction 0 was confirmed.
C31_Witness ==
    \E d \in Devices :
        /\ tick[d].pc = "recv"
        /\ Len(journal[d]) = 2
        /\ LatestConfirmedIndex(d) = 1
        /\ 1 \in DOMAIN table[DeviceCloud]
        /\ table[DeviceCloud][1].salt \in DeviceSalts(d)

GetServed == last' # last /\ last'.op \in {"state", "mutation"}

\* Nothing is stored for cloud c and its durable object has cached no count.
NeverSeen(c) ==
    /\ StoredCount(c) = 0
    /\ bucket_count[c] = 0
    /\ mutation_count_lock[c] = NoIndex

\* C33: GET /state and GET /mutation never change the relay's state: whatever
\* the parameters and the outcome (200, 400, 404 / 424), the stored mutations,
\* the counts and the known public keys of every cloud are unchanged; and
\* /state for a cloud id never seen answers 200 with count 0.
C33_GetsChangeNothing ==
    [][GetServed =>
        /\ table' = table
        /\ known_public_keys' = known_public_keys
        /\ bucket_count' = bucket_count
        /\ \A c \in CloudIds : StateAnswer(c)' = StateAnswer(c)
        /\ (last'.op = "state" /\ last'.cloud \in CloudIds /\ NeverSeen(last'.cloud)) =>
              (last'.status = OK /\ last'.count = 0)]_vars

\* The relay has answered a GET /mutation for an index past the end of a
\* cloud that holds mutations.
C33_Witness ==
    /\ last.op = "mutation"
    /\ last.cloud \in CloudIds
    /\ ~IsSuccess(last.status)
    /\ StoredCount(last.cloud) >= 1
    /\ last.index >= StoredCount(last.cloud)

\* The tick of device d returns from its early return in this step.
EarlyReturn(d) ==
    /\ tick[d].pc = "recv"
    /\ tick'[d].pc = "idle"
    /\ tick'[d].result \in {"ok", "unknown_status"}

\* C34: after synchronization was disabled and enabled again, the first tick
\* that completes its push loop polls the relay's /state and does not take the
\* early return; disabling and enabling change neither the cursor nor the
\* journal.
C34_ResumedTickPollsState ==
    [][\A d \in Devices :
          /\ resumed[d] => ~EarlyReturn(d)
          /\ sync_state'[d].synchronization_enabled # sync_state[d].synchronization_enabled =>
                /\ sync_state'[d].latest_confirmed_index = sync_state[d].latest_confirmed_index
                /\ journal' = journal]_vars

SetActiveReturns == called'.op = "set_active_cloud" /\ called' # called

\* C36: set_active_cloud changes only the active cloud id, in memory and under
\* the reserved key of the known-keys table: the secrets cloud_keys returns,
\* the clouds map and the remote_clouds map are unchanged; the reserved entry
\* is never taken for a cloud secret; and active_cloud returns a cloud only
\* when the active id is a key of the clouds map.
C36_SetActiveCloudChangesOnlyActiveId ==
    [][/\ SetActiveReturns =>
            /\ active_cloud_id' = called'.id
            /\ KnownKeysTable'[ACTIVE_CLOUD_KEY] = called'.id
            /\ DOMAIN KnownKeysTable' \ {ACTIVE_CLOUD_KEY} = DOMAIN KnownKeysTable \ {ACTIVE_CLOUD_KEY}
            /\ \A key \in DOMAIN KnownKeysTable \ {ACTIVE_CLOUD_KEY} :
                  KnownKeysTable'[key] = KnownKeysTable[key]
            /\ CloudKeys' = CloudKeys
            /\ clouds' = clouds
            /\ remote_clouds' = remote_clouds
       /\ CloudKeys' \subseteq Secrets
       /\ NextCloudIds' \subseteq CloudIds
       /\ ActiveCloud' # None => (ActiveCloud' = active_cloud_id' /\ active_cloud_id' \in clouds')]_vars

\* A cloud that is loaded was made the active one, on a device that knows
\* every secret.
C36_Witness ==
    /\ called.op = "set_active_cloud"
    /\ ActiveCloud = called.id
    /\ ActiveCloud # None
    /\ known_keys = Secrets
    /\ remote_clouds # {}

\* C37: in the worker relay, whenever the cached mutation count of a cloud is
\* set it equals the count persisted in the bucket, and every index below it
\* has a stored mutation, after any sequence of GET /state, GET /mutation and
\* POST /mutate requests; hence GET /mutation for an index below the reported
\* count always returns a mutation.
C37_CachedCountMatchesBucket ==
    relayKind = "worker" =>
        \A q \in CloudIds :
            /\ mutation_count_lock[q] # NoIndex =>
                  /\ mutation_count_lock[q] = bucket_count[q]
                  /\ \A i \in 0..(mutation_count_lock[q] - 1) : i \in DOMAIN table[q]
            /\ \A i \in 0..(StateAnswer(q) - 1) : GetStatus(q, i) = OK

====
